---- MODULE Spec2Model ----
(***************************************************************************)
(* Model of src/app.py (project schedule dashboard).                       *)
(*                                                                         *)
(* Two parts of the program are modelled:                                  *)
(*   - parse_date (app.py:38-101), the date normaliser, as a state machine *)
(*     with one action per rule of the function (specification Spec);      *)
(*   - the module-level pipeline (app.py:122-197) that resolves columns,   *)
(*     filters rows, applies parse_date, derives the start date and builds *)
(*     the Gantt tasks and D-day annotations (specification PipelineSpec). *)
(*                                                                         *)
(* A Python str is a sequence of one-character tokens.  Module text is    *)
(* ASCII, so every Hangul syllable is written as its romanisation:         *)
(*   "i" "jeon"            the before-marker          (app.py:48)          *)
(*   "haeng" "sa"          the event-marker           (app.py:53)          *)
(*   "o" "jeon" / "o" "hu" morning / afternoon marker (app.py:58)          *)
(*   "sa" "jeon" "gyu" "gyeok", "gyeon" "jeok" "seo" " " "yo" "cheong",    *)
(*   "sil" "haeng" "jung"  the three sentinel words   (app.py:45)          *)
(*   "sa" "eop" "myeong", "je" "chul" "il", "jong" "ryo" "il",             *)
(*   "dam" "dang" "ja"     the column keywords        (app.py:123-125)     *)
(* A missing cell (NaN) is the sequence of the one token "NaN", which is   *)
(* not a character.                                                        *)
(***************************************************************************)
EXTENDS Integers, Sequences, FiniteSets, TLC

-----------------------------------------------------------------------------
(* Bounds of the input domains.                                            *)

\* first calendar year written in generated inputs (besides year 0000)
FirstYear == 2023
\* number of consecutive years generated from FirstYear on
NumYears == 2
\* months 00..MaxMonth are generated (13 is the first impossible month)
MaxMonth == 13
\* days 00..MaxDay are generated (32 is the first day no month has)
MaxDay == 32
\* largest number of data rows of a table
MaxRows == 2

-----------------------------------------------------------------------------
(* Characters and Python str operations used by the program.               *)

\* float('nan'): the one token that is not a character
NaN == <<"NaN">>

Digit == {"0", "1", "2", "3", "4", "5", "6", "7", "8", "9"}

DigitVal(c) ==
  CASE c = "0" -> 0 [] c = "1" -> 1 [] c = "2" -> 2 [] c = "3" -> 3
    [] c = "4" -> 4 [] c = "5" -> 5 [] c = "6" -> 6 [] c = "7" -> 7
    [] c = "8" -> 8 [] c = "9" -> 9

RECURSIVE ToInt(_)
\* int() of a string of decimal digits
ToInt(s) ==
  IF Len(s) = 0 THEN 0
  ELSE 10 * ToInt(SubSeq(s, 1, Len(s) - 1)) + DigitVal(s[Len(s)])

SetMin(S) == CHOOSE x \in S : \A y \in S : x <= y
SetMax(S) == CHOOSE x \in S : \A y \in S : x >= y

\* pd.isna(date_str)
isna(v) == v = NaN

\* str.strip(): leading and trailing whitespace removed
strip(s) ==
  LET idx == {k \in 1..Len(s) : s[k] # " "}
  IN  IF idx = {} THEN <<>> ELSE SubSeq(s, SetMin(idx), SetMax(idx))

\* sub occurs in s at position p
StartsAt(s, sub, p) ==
  /\ p + Len(sub) - 1 <= Len(s)
  /\ \A k \in 1..Len(sub) : s[p + k - 1] = sub[k]

\* Python's  sub in s  for two strings
Contains(s, sub) == \E p \in 1..(Len(s) - Len(sub) + 1) : StartsAt(s, sub, p)

RECURSIVE RemoveFrom(_, _, _)
RemoveFrom(s, old, p) ==
  IF p > Len(s) THEN <<>>
  ELSE IF StartsAt(s, old, p) THEN RemoveFrom(s, old, p + Len(old))
  ELSE <<s[p]>> \o RemoveFrom(s, old, p + 1)

\* s.replace(old, ''): every non-overlapping occurrence removed, left to right
replace(s, old) == RemoveFrom(s, old, 1)

\* a regular expression made of character classes only: one set per position
ClassesMatchAt(pat, s, p) ==
  /\ p + Len(pat) - 1 <= Len(s)
  /\ \A k \in 1..Len(pat) : s[p + k - 1] \in pat[k]

\* re.search(pat, s): position of the leftmost match, 0 for None
re_search(pat, s) ==
  LET ps == {p \in 1..Len(s) : ClassesMatchAt(pat, s, p)}
  IN  IF ps = {} THEN 0 ELSE SetMin(ps)

\* match.group() of a re_search that found a match
group(pat, s) == SubSeq(s, re_search(pat, s), re_search(pat, s) + Len(pat) - 1)

\* re.match('^...$', s) on a stripped string: the whole string matches
re_fullmatch(pat, s) == Len(s) = Len(pat) /\ ClassesMatchAt(pat, s, 1)

DashDatePattern == <<Digit, Digit, Digit, Digit, {"-"}, Digit, Digit, {"-"}, Digit, Digit>>
DotDatePattern == <<Digit, Digit, Digit, Digit, {"."}, Digit, Digit, {"."}, Digit, Digit>>
YearPattern == <<Digit, Digit, Digit, Digit>>
YearMonthPattern == <<Digit, Digit, Digit, Digit, {"."}, Digit, Digit>>

BeforeMarker == <<"i", "jeon">>
EventMarker == <<"haeng", "sa">>
MorningMarker == <<"o", "jeon">>
AfternoonMarker == <<"o", "hu">>
SentinelKeywords ==
  { <<"sa", "jeon", "gyu", "gyeok">>,
    <<"gyeon", "jeok", "seo", " ", "yo", "cheong">>,
    <<"sil", "haeng", "jung">> }

-----------------------------------------------------------------------------
(* Calendar arithmetic of pandas.Timestamp and datetime.timedelta.         *)
(* A Timestamp is a day ordinal (0001-01-01 is day 1) and a second of the  *)
(* day; NaT and a raised ValueError are the two other outcomes.            *)

NaT == [kind |-> "NaT"]
ValueError == [kind |-> "ValueError"]
Timestamp(o, s) == [kind |-> "Timestamp", ord |-> o, sod |-> s]

SecondsPerDay == 86400

IsLeap(y) == (y % 4 = 0) /\ ((y % 100 # 0) \/ (y % 400 = 0))

DaysInMonth(y, m) ==
  IF m = 2 THEN (IF IsLeap(y) THEN 29 ELSE 28)
  ELSE IF m \in {4, 6, 9, 11} THEN 30 ELSE 31

DaysBeforeYear(y) ==
  (y - 1) * 365 + ((y - 1) \div 4) - ((y - 1) \div 100) + ((y - 1) \div 400)

RECURSIVE DaysBeforeMonth(_, _)
DaysBeforeMonth(y, m) ==
  IF m = 1 THEN 0 ELSE DaysBeforeMonth(y, m - 1) + DaysInMonth(y, m - 1)

\* datetime.date(y, m, d) is constructible
ValidDate(y, m, d) ==
  /\ y \in 1..9999
  /\ m \in 1..12
  /\ d \in 1..DaysInMonth(y, m)

toordinal(y, m, d) == DaysBeforeYear(y) + DaysBeforeMonth(y, m) + d

\* year of a day ordinal (the 400/100/4/1-year cycles of the Gregorian calendar)
OrdYear(o) ==
  LET n0 == o - 1
      n400 == n0 \div 146097
      r400 == n0 % 146097
      n100 == r400 \div 36524
      r100 == r400 % 36524
      n4 == r100 \div 1461
      r4 == r100 % 1461
      n1 == r4 \div 365
      y == n400 * 400 + n100 * 100 + n4 * 4 + n1 + 1
  IN  IF n1 = 4 \/ n100 = 4 THEN y - 1 ELSE y

OrdMonth(o) ==
  LET y == OrdYear(o)
      n == o - DaysBeforeYear(y)
  IN  SetMin({m \in 1..12 : n <= DaysBeforeMonth(y, m) + DaysInMonth(y, m)})

OrdDay(o) ==
  LET y == OrdYear(o)
  IN  o - DaysBeforeYear(y) - DaysBeforeMonth(y, OrdMonth(o))

\* ts - timedelta(days=n)
MinusDays(ts, n) == Timestamp(ts.ord - n, ts.sod)

\* ts + timedelta(hours=h), h may be negative
PlusHours(ts, h) ==
  LET total == ts.sod + 3600 * h
  IN  Timestamp(ts.ord + (total \div SecondsPerDay), total % SecondsPerDay)

\* ts.hour
hour(ts) == ts.sod \div 3600

\* (a - b).days: the floor of the difference in days
DeltaDays(a, b) == (a.ord - b.ord) + ((a.sod - b.sod) \div SecondsPerDay)

DigitChar(n) ==
  CASE n = 0 -> "0" [] n = 1 -> "1" [] n = 2 -> "2" [] n = 3 -> "3"
    [] n = 4 -> "4" [] n = 5 -> "5" [] n = 6 -> "6" [] n = 7 -> "7"
    [] n = 8 -> "8" [] n = 9 -> "9"

\* zero-padded decimal text of n, two and four characters wide
TwoDigits(n) == <<DigitChar((n \div 10) % 10), DigitChar(n % 10)>>
FourDigits(n) == TwoDigits(n \div 100) \o TwoDigits(n % 100)

\* ts.strftime('%Y-%m-%d')
strftime(ts) ==
  FourDigits(OrdYear(ts.ord)) \o <<"-">> \o TwoDigits(OrdMonth(ts.ord))
    \o <<"-">> \o TwoDigits(OrdDay(ts.ord))

-----------------------------------------------------------------------------
(* pd.to_datetime(s, format=fmt): the format is compiled to a regular      *)
(* expression (one group per directive, whitespace as \s+), matched from   *)
(* the start of s with backtracking, and must consume s entirely.          *)
(* A format is a sequence of tokens: a directive "%Y", or one character.   *)

NonZeroDigit == Digit \ {"0"}

\* the alternatives of a directive's group, in the order the regex tries them
Alternatives(tok) ==
  CASE tok = "%Y" -> << <<Digit, Digit, Digit, Digit>> >>
    [] tok \in {"%m", "%I"} ->
         << <<{"1"}, {"0", "1", "2"}>>, <<{"0"}, NonZeroDigit>>, <<NonZeroDigit>> >>
    [] tok = "%d" ->
         << <<{"3"}, {"0", "1"}>>, <<{"1", "2"}, Digit>>, <<{"0"}, NonZeroDigit>>,
            <<NonZeroDigit>>, <<{" "}, NonZeroDigit>> >>
    [] tok = "%H" ->
         << <<{"2"}, {"0", "1", "2", "3"}>>, <<{"0", "1"}, Digit>>, <<Digit>> >>
    [] tok = "%M" ->
         << <<{"0", "1", "2", "3", "4", "5"}, Digit>>, <<Digit>> >>
    [] tok = "%S" ->
         << <<{"6"}, {"0", "1"}>>, <<{"0", "1", "2", "3", "4", "5"}, Digit>>, <<Digit>> >>
    [] tok = "%p" -> << <<{"A", "a"}, {"M", "m"}>>, <<{"P", "p"}, {"M", "m"}>> >>
    [] OTHER -> << <<{tok}>> >>

RECURSIVE WsRun(_, _)
\* number of whitespace characters of s from position p on
WsRun(s, p) == IF p <= Len(s) /\ s[p] = " " THEN 1 + WsRun(s, p + 1) ELSE 0

\* the lengths token tok can consume at position p, in the order they are tried
Candidates(tok, s, p) ==
  IF tok = " "
  THEN [j \in 1..WsRun(s, p) |-> WsRun(s, p) + 1 - j]
  ELSE LET alts == Alternatives(tok)
           ok == SelectSeq(alts, LAMBDA a : ClassesMatchAt(a, s, p))
       IN  [j \in 1..Len(ok) |-> Len(ok[j])]

NoMatch == [ok |-> FALSE]

RECURSIVE RegexMatch(_, _, _, _)
RECURSIVE TryCandidates(_, _, _, _, _, _)
\* format tokens k.. against s from position p: the first match in priority order
RegexMatch(fmt, k, s, p) ==
  IF k > Len(fmt) THEN [ok |-> TRUE, end |-> p, found |-> <<>>]
  ELSE TryCandidates(fmt, k, s, p, Candidates(fmt[k], s, p), 1)

TryCandidates(fmt, k, s, p, cands, j) ==
  IF j > Len(cands) THEN NoMatch
  ELSE LET rest == RegexMatch(fmt, k + 1, s, p + cands[j])
       IN  IF rest.ok
           THEN [ok |-> TRUE, end |-> rest.end,
                 found |-> <<[tok |-> fmt[k], text |-> SubSeq(s, p, p + cands[j] - 1)]>>
                             \o rest.found]
           ELSE TryCandidates(fmt, k, s, p, cands, j + 1)

\* the group of directive tok was matched
Has(found, tok) == \E j \in 1..Len(found) : found[j].tok = tok

\* int() of the text matched by directive tok, dflt when the format has no such directive
Field(found, tok, dflt) ==
  IF Has(found, tok)
  THEN ToInt(strip(found[CHOOSE j \in 1..Len(found) : found[j].tok = tok].text))
  ELSE dflt

\* the hour of the day from %H, or from %I and %p (no %p counts as AM)
FoundHour(found) ==
  IF Has(found, "%I")
  THEN LET h == Field(found, "%I", 0)
           pm == Has(found, "%p")
                   /\ found[CHOOSE j \in 1..Len(found) : found[j].tok = "%p"].text[1] \in {"P", "p"}
       IN  IF pm THEN (IF h # 12 THEN h + 12 ELSE h)
           ELSE (IF h = 12 THEN 0 ELSE h)
  ELSE Field(found, "%H", 0)

\* the timestamp of the matched groups; an impossible date raises ValueError
FromFound(found) ==
  LET y == Field(found, "%Y", 1900)
      m == Field(found, "%m", 1)
      d == Field(found, "%d", 1)
      sec == Field(found, "%S", 0)
  IN  IF ValidDate(y, m, d) /\ sec <= 59
      THEN Timestamp(toordinal(y, m, d),
                     FoundHour(found) * 3600 + Field(found, "%M", 0) * 60 + sec)
      ELSE ValueError

\* pd.to_datetime(s, format=fmt) of one string
to_datetime_format(s, fmt) ==
  IF Len(s) = 0 THEN NaT
  ELSE LET r == RegexMatch(fmt, 1, s, 1)
       IN  IF r.ok /\ r.end = Len(s) + 1 THEN FromFound(r.found) ELSE ValueError

\* pd.to_datetime(s) of the text of an ISO date 'YYYY-MM-DD' cut out by a regex
to_datetime_iso(s) ==
  LET y == ToInt(SubSeq(s, 1, 4))
      m == ToInt(SubSeq(s, 6, 7))
      d == ToInt(SubSeq(s, 9, 10))
  IN  IF ValidDate(y, m, d) THEN Timestamp(toordinal(y, m, d), 0) ELSE ValueError

-----------------------------------------------------------------------------
(* parse_date (app.py:38-101): the rules, each as a function of date_str.  *)

\* a rule that did not return: control falls through to the next rule
Pending == [kind |-> "pending"]

\* str(v): the text of a cell or column label; str(float('nan')) is 'nan'
str(v) == IF isna(v) THEN <<"n", "a", "n">> ELSE v

\* date_str in ['...', '...', '...']: membership in the list, i.e. equality
IsSentinel(s) == s \in SentinelKeywords

RECURSIVE DotsToDashes(_)
\* s.replace('.', '-')
DotsToDashes(s) ==
  IF Len(s) = 0 THEN <<>>
  ELSE <<IF Head(s) = "." THEN "-" ELSE Head(s)>> \o DotsToDashes(Tail(s))

\* x - timedelta(days=1) of a to_datetime that may have raised
MinusOneDay(x) == IF x.kind = "Timestamp" THEN MinusDays(x, 1) ELSE x

BeforeRuleYieldsToEvent(s) ==
  IF Contains(s, BeforeMarker) /\ re_search(DashDatePattern, s) # 0
       /\ ~Contains(s, EventMarker)
  THEN MinusOneDay(to_datetime_iso(group(DashDatePattern, s)))
  ELSE Pending

BeforeRuleKeepsDay(s) ==
  IF Contains(s, BeforeMarker) /\ re_search(DashDatePattern, s) # 0
  THEN to_datetime_iso(group(DashDatePattern, s))
  ELSE Pending

\* if '<before>' in date_str: search YYYY-MM-DD, return it minus one day
BeforeRule(s) ==
  IF Contains(s, BeforeMarker) /\ re_search(DashDatePattern, s) # 0
  THEN MinusOneDay(to_datetime_iso(group(DashDatePattern, s)))
  ELSE Pending

\* if '<event>' in date_str: search YYYY.MM.DD, return it as a date
EventRule(s) ==
  IF Contains(s, EventMarker) /\ re_search(DotDatePattern, s) # 0
  THEN to_datetime_iso(DotsToDashes(group(DotDatePattern, s)))
  ELSE Pending

\* re.search(r'(morning|afternoon)', date_str) finds a marker
HasMeridiem(s) == Contains(s, MorningMarker) \/ Contains(s, AfternoonMarker)

\* am_pm_match.group(1): the marker of the leftmost match
am_pm_of(s) ==
  LET p == SetMin({q \in 1..Len(s) :
                     StartsAt(s, MorningMarker, q) \/ StartsAt(s, AfternoonMarker, q)})
  IN  IF StartsAt(s, MorningMarker, p) THEN MorningMarker ELSE AfternoonMarker

\* date_str.replace(am_pm, '').strip()
StripMeridiem(s) == strip(replace(s, am_pm_of(s)))

TwelveHourFormat == <<"%Y", ".", "%m", ".", "%d", " ", "%I", ":", "%M">>

MeridiemAdjustDropsAfternoon(dt, am_pm) ==
  IF dt.kind # "Timestamp" THEN dt
  ELSE IF am_pm = MorningMarker /\ hour(dt) = 12 THEN PlusHours(dt, -12)
  ELSE dt

\* the 12-hour correction of the parsed dt (NaT has no hour and stays NaT)
MeridiemAdjust(dt, am_pm) ==
  IF dt.kind # "Timestamp" THEN dt
  ELSE IF am_pm = MorningMarker
       THEN (IF hour(dt) = 12 THEN PlusHours(dt, -12) ELSE dt)
       ELSE (IF hour(dt) # 12 THEN PlusHours(dt, 12) ELSE dt)

MeridiemRuleGivesUp(s) ==
  LET dt == to_datetime_format(StripMeridiem(s), TwelveHourFormat)
  IN  IF dt.kind = "ValueError" THEN NaT ELSE MeridiemAdjust(dt, am_pm_of(s))

\* the try block of the meridiem rule on the marker-stripped string;
\* except ValueError: pass
MeridiemRule(s) ==
  LET dt == to_datetime_format(StripMeridiem(s), TwelveHourFormat)
  IN  IF dt.kind = "ValueError" THEN Pending ELSE MeridiemAdjust(dt, am_pm_of(s))

\* if re.match(r'^\d{4}$', date_str): to_datetime(format='%Y'), not in a try
YearRule(s) ==
  IF re_fullmatch(YearPattern, s) THEN to_datetime_format(s, <<"%Y">>) ELSE Pending

\* if re.match(r'^\d{4}\.\d{2}$', date_str): to_datetime(format='%Y.%m'), not in a try
YearMonthRule(s) ==
  IF re_fullmatch(YearMonthPattern, s)
  THEN to_datetime_format(s, <<"%Y", ".", "%m">>)
  ELSE Pending

date_formats ==
  << <<"%Y", "-", "%m", "-", "%d">>,
     <<"%Y", ".", "%m", ".", "%d">>,
     <<"%Y", "-", "%m", "-", "%d", " ", "%H", ":", "%M">>,
     <<"%Y", ".", "%m", ".", "%d", " ", "%H", ":", "%M">>,
     <<"%Y", "-", "%m", "-", "%d", " ", "%p", " ", "%I", ":", "%M">>,
     <<"%Y", ".", "%m", ".", "%d", " ", "%p", " ", "%I", ":", "%M">>,
     <<"%Y", "-", "%m", "-", "%d", " ", "%H", ":", "%M", ":", "%S">>,
     <<"%Y", ".", "%m", ".", "%d", " ", "%H", ":", "%M", ":", "%S">>,
     <<"%Y", ".", " ", "%m", ".", " ", "%d", ".", " ", "%H", ":", "%M">>,
     <<"%Y", ".", "%m", ".", "%d", " ", "%H", ":", "%M">>,
     <<"%Y", ".", "%m", ".", "%d", ".", "%H">> >>

\* one pass of the loop body: try: return to_datetime(...) except ValueError: continue
FormatAttempt(s, i) ==
  LET dt == to_datetime_format(s, date_formats[i])
  IN  IF dt.kind = "ValueError" THEN Pending ELSE dt

RECURSIVE Battery(_, _)
\* the for loop over date_formats from index i on, then return pd.NaT
Battery(s, i) ==
  IF i > Len(date_formats) THEN NaT
  ELSE LET dt == FormatAttempt(s, i)
       IN  IF dt # Pending THEN dt ELSE Battery(s, i + 1)

\* the rules after the meridiem rule, on the date_str that rule left
LaterRules(s) ==
  LET y == YearRule(s)
      ym == YearMonthRule(s)
  IN  IF y # Pending THEN y
      ELSE IF ym # Pending THEN ym
      ELSE Battery(s, 1)

\* parse_date as a function of the cell
parse_date(cell) ==
  IF isna(cell) THEN NaT
  ELSE LET s == strip(str(cell))
           before == BeforeRule(s)
           event == EventRule(s)
           meridiem == MeridiemRule(s)
       IN  IF IsSentinel(s) THEN NaT
           ELSE IF before # Pending THEN before
           ELSE IF event # Pending THEN event
           ELSE IF HasMeridiem(s)
                THEN (IF meridiem # Pending THEN meridiem
                      ELSE LaterRules(StripMeridiem(s)))
                ELSE LaterRules(s)

-----------------------------------------------------------------------------
(* The cells parse_date is applied to.                                     *)

DashDate(y, m, d) == FourDigits(y) \o <<"-">> \o TwoDigits(m) \o <<"-">> \o TwoDigits(d)
DotDate(y, m, d) == FourDigits(y) \o <<".">> \o TwoDigits(m) \o <<".">> \o TwoDigits(d)
Clock(h, mi) == TwoDigits(h) \o <<":">> \o TwoDigits(mi)
Sp == <<" ">>

Years == FirstYear..(FirstYear + NumYears - 1)
Months == 0..MaxMonth
Days == 0..MaxDay
\* a few dates: first and last days of months and years, leap days, impossible dates
SomeDates ==
  {<<y, m, d>> : y \in Years \cup {0}, m \in {0, 1, 3, 12, MaxMonth}, d \in {1, 15, MaxDay}}
    \cup {<<y, 2, d>> : y \in Years, d \in {28, 29, 30}}
FewDates == {<<y, m, 15>> : y \in Years, m \in {3, MaxMonth}} \cup {<<y, 2, 29>> : y \in Years}
Hours == 0..23
Minutes == {0, 30, 59}
Sentinels == SentinelKeywords

BeforeInputs ==
  {BeforeMarker \o DashDate(y, m, d) : y \in Years, m \in Months, d \in Days}
    \cup {BeforeMarker \o Sp \o DashDate(g[1], g[2], g[3]) : g \in SomeDates}
    \cup {DashDate(g[1], g[2], g[3]) \o Sp \o BeforeMarker : g \in SomeDates}
    \cup {BeforeMarker \o DotDate(g[1], g[2], g[3]) : g \in FewDates}
    \cup {BeforeMarker \o DashDate(g[1], g[2], g[3]) \o Sp \o EventMarker \o Sp
            \o DotDate(h[1], h[2], h[3]) : g \in FewDates, h \in FewDates}
    \cup {BeforeMarker \o DashDate(g[1], g[2], g[3]) \o Sp \o mk \o Sp \o Clock(3, 30) :
            g \in FewDates, mk \in {MorningMarker, AfternoonMarker}}
    \cup {BeforeMarker, BeforeMarker \o Sp \o <<"2", "0", "2", "4">>}

EventInputs ==
  {EventMarker \o Sp \o DotDate(g[1], g[2], g[3]) : g \in SomeDates}
    \cup {DotDate(g[1], g[2], g[3]) \o Sp \o EventMarker : g \in SomeDates}
    \cup {EventMarker \o Sp \o DashDate(g[1], g[2], g[3]) : g \in FewDates}
    \cup {EventMarker \o Sp \o DotDate(g[1], g[2], g[3]) \o Sp \o AfternoonMarker \o Sp
            \o Clock(3, 30) : g \in FewDates}
    \cup {EventMarker}

MeridiemInputs ==
  {DotDate(g[1], g[2], g[3]) \o Sp \o mk \o Sp \o Clock(h, mi) :
      g \in FewDates, mk \in {MorningMarker, AfternoonMarker}, h \in Hours, mi \in Minutes}
    \cup {DashDate(g[1], g[2], g[3]) \o Sp \o mk \o Sp \o Clock(h, 30) :
            g \in FewDates, mk \in {MorningMarker, AfternoonMarker}, h \in Hours}
    \cup {d \o Sp \o Clock(h, 30) \o Sp \o mk :
            d \in {DotDate(FirstYear, 3, 15), DashDate(FirstYear, 3, 15)},
            mk \in {MorningMarker, AfternoonMarker}, h \in Hours}
    \cup {DotDate(FirstYear, 3, 15) \o Sp \o mk \o Sp \o <<"3", ":", "3", "0">> :
            mk \in {MorningMarker, AfternoonMarker}}
    \cup {DotDate(FirstYear, 3, 15) \o Sp \o AfternoonMarker \o Sp \o Clock(3, 60)}
    \cup {x \o Sp \o mk :
            x \in {FourDigits(y) : y \in Years \cup {0}}
                    \cup {FourDigits(FirstYear) \o <<".">> \o TwoDigits(m) : m \in {5, MaxMonth}}
                    \cup {DotDate(g[1], g[2], g[3]) : g \in FewDates}
                    \cup {DashDate(g[1], g[2], g[3]) : g \in FewDates},
            mk \in {MorningMarker, AfternoonMarker}}
    \cup {MorningMarker, AfternoonMarker, MorningMarker \o Sp \o AfternoonMarker}

YearInputs ==
  {FourDigits(y) : y \in Years \cup {0, 1, 9999}}
    \cup {FourDigits(y) \o <<".">> \o TwoDigits(m) : y \in Years \cup {0}, m \in Months}
    \cup {<<"2", "0", "2">>, <<"2", "0", "2", "4", "5">>, <<"2", "0", "2", "4", ".">>,
          <<"2", "0", "2", "4", ".", "5">>}

BatteryInputs ==
  LET dash == {DashDate(g[1], g[2], g[3]) : g \in SomeDates}
      dot == {DotDate(g[1], g[2], g[3]) : g \in SomeDates}
      fdash == {DashDate(g[1], g[2], g[3]) : g \in FewDates}
      fdot == {DotDate(g[1], g[2], g[3]) : g \in FewDates}
      clocks == {Clock(0, 0), Clock(9, 5), Clock(12, 30), Clock(13, 30), Clock(23, 59),
                 Clock(24, 0), Clock(10, 60), <<"9", ":", "5">>}
      ampm == {<<"A", "M">>, <<"P", "M">>, <<"p", "m">>}
  IN  dash \cup dot
        \cup {d \o Sp \o c : d \in fdash \cup fdot, c \in clocks}
        \cup {d \o Sp \o Sp \o c : d \in fdash \cup fdot, c \in {Clock(13, 30)}}
        \cup {d \o Sp \o a \o Sp \o c : d \in fdash \cup fdot, a \in ampm,
                c \in {Clock(0, 30), Clock(1, 30), Clock(12, 30), Clock(13, 30)}}
        \cup {d \o Sp \o c \o <<":">> \o TwoDigits(s) : d \in fdash \cup fdot,
                c \in {Clock(13, 30)}, s \in {0, 59, 60, 61}}
        \cup {FourDigits(g[1]) \o <<".", " ">> \o TwoDigits(g[2]) \o <<".", " ">>
                \o TwoDigits(g[3]) \o <<".", " ">> \o c : g \in FewDates,
                c \in {Clock(9, 5), Clock(13, 30)}}
        \cup {d \o <<".">> \o TwoDigits(h) : d \in fdot, h \in {0, 9, 23, 24}}
        \cup {<<"2", "0", "2", "4", "-", "3", "-", "5">>,
              <<"2", "0", "2", "4", ".", "3", ".", " ", "5">>,
              <<"2", "0", "2", "4", "/", "0", "3", "/", "1", "5">>,
              <<"a", "b", "c">>}

SentinelInputs ==
  Sentinels
    \cup {Sp \o k \o Sp : k \in Sentinels}
    \cup {k \o Sp \o DotDate(FirstYear, 3, 15) : k \in Sentinels}
    \cup {DashDate(FirstYear, 3, 15) \o Sp \o k : k \in Sentinels}
    \cup {k \o Sp \o BeforeMarker \o Sp \o DashDate(g[1], g[2], g[3]) :
            k \in Sentinels, g \in FewDates}
    \cup {k \o Sp \o EventMarker \o Sp \o DotDate(FirstYear, 3, 15) : k \in Sentinels}
    \cup {DotDate(FirstYear, 3, 15) \o Sp \o AfternoonMarker \o Sp \o Clock(1, 30) \o Sp \o k :
            k \in Sentinels}
    \cup {FourDigits(FirstYear) \o k : k \in Sentinels}

Inputs ==
  {NaN, <<>>, Sp} \cup BeforeInputs \cup EventInputs \cup MeridiemInputs
    \cup YearInputs \cup BatteryInputs \cup SentinelInputs

-----------------------------------------------------------------------------
(* parse_date as a state machine: pc is the rule being evaluated, and the  *)
(* rule whose return statement ran once result is set.                     *)

VARIABLES raw, date_str, pc, fmt, result

\* the variables of the dashboard script (defined with PipelineSpec below)
VARIABLES sheet, columns, df, cols, step, tasks, annotations, now, shown

pvars == <<raw, date_str, pc, fmt, result>>
dvars == <<sheet, columns, df, cols, step, tasks, annotations, now, shown>>
vars == <<pvars, dvars>>

NoColumns == [name |-> 0, end |-> 0, manager |-> 0]

\* the script is not running
ScriptIdle ==
  /\ sheet = <<>>
  /\ columns = <<>>
  /\ df = <<>>
  /\ cols = NoColumns
  /\ step = "idle"
  /\ tasks = <<>>
  /\ annotations = <<>>
  /\ now = Timestamp(1, 0)
  /\ shown = <<>>

Init ==
  /\ raw \in Inputs
  /\ date_str = raw
  /\ pc = "isna"
  /\ fmt = 1
  /\ result = Pending
  /\ ScriptIdle

\* if pd.isna(date_str): return pd.NaT;  date_str = str(date_str).strip()
CheckMissing ==
  /\ pc = "isna" /\ result = Pending
  /\ IF isna(raw)
     THEN result' = NaT /\ UNCHANGED <<date_str, pc>>
     ELSE date_str' = strip(str(raw)) /\ pc' = "sentinel" /\ UNCHANGED result
  /\ UNCHANGED <<raw, fmt>>
  /\ UNCHANGED dvars

\* if date_str in [sentinels]: return pd.NaT
CheckSentinel ==
  /\ pc = "sentinel" /\ result = Pending
  /\ IF IsSentinel(date_str)
     THEN result' = NaT /\ UNCHANGED pc
     ELSE pc' = "before" /\ UNCHANGED result
  /\ UNCHANGED <<raw, date_str, fmt>>
  /\ UNCHANGED dvars

\* a rule that leaves date_str alone: return its value, or go on to the rule next
RuleStep(here, value, next) ==
  /\ pc = here /\ result = Pending
  /\ IF value # Pending
     THEN result' = value /\ UNCHANGED pc
     ELSE pc' = next /\ UNCHANGED result
  /\ UNCHANGED <<raw, date_str, fmt>>
  /\ UNCHANGED dvars

Before == RuleStep("before", BeforeRule(date_str), "event")

Event == RuleStep("event", EventRule(date_str), "meridiem")

\* the meridiem rule rebinds date_str to the marker-stripped string
Meridiem ==
  /\ pc = "meridiem" /\ result = Pending
  /\ IF HasMeridiem(date_str)
     THEN /\ date_str' = StripMeridiem(date_str)
          /\ IF MeridiemRule(date_str) # Pending
             THEN result' = MeridiemRule(date_str) /\ UNCHANGED pc
             ELSE pc' = "year" /\ UNCHANGED result
     ELSE pc' = "year" /\ UNCHANGED <<date_str, result>>
  /\ UNCHANGED <<raw, fmt>>
  /\ UNCHANGED dvars

Year == RuleStep("year", YearRule(date_str), "yearmonth")

YearMonth == RuleStep("yearmonth", YearMonthRule(date_str), "battery")

\* for fmt in date_formats: one iteration
BatteryStep ==
  /\ pc = "battery" /\ result = Pending
  /\ fmt <= Len(date_formats)
  /\ IF FormatAttempt(date_str, fmt) # Pending
     THEN result' = FormatAttempt(date_str, fmt) /\ UNCHANGED fmt
     ELSE fmt' = fmt + 1 /\ UNCHANGED result
  /\ UNCHANGED <<raw, date_str, pc>>
  /\ UNCHANGED dvars

\* the loop is exhausted: return pd.NaT
Default ==
  /\ pc = "battery" /\ result = Pending
  /\ fmt > Len(date_formats)
  /\ result' = NaT
  /\ pc' = "default"
  /\ UNCHANGED <<raw, date_str, fmt>>
  /\ UNCHANGED dvars

Next ==
  \/ CheckMissing
  \/ CheckSentinel
  \/ Before
  \/ Event
  \/ Meridiem
  \/ Year
  \/ YearMonth
  \/ BatteryStep
  \/ Default

Spec == Init /\ [][Next]_vars

-----------------------------------------------------------------------------
(* Properties of parse_date, checked under Spec.                           *)

\* parse_date has returned a value or raised
Returned == result # Pending

\* the integer written at positions a..b of the cell
RawInt(a, b) == ToInt(SubSeq(raw, a, b))

\* the day before y-m-d, by the calendar's rule
PrevDay(y, m, d) ==
  IF d > 1 THEN <<y, m, d - 1>>
  ELSE IF m > 1 THEN <<y, m - 1, DaysInMonth(y, m - 1)>>
  ELSE <<y - 1, 12, 31>>

\* C1: parse_date is total: for every cell (missing, empty, or any string, also one
\* whose digits form an impossible date) it returns a timestamp or NaT and never raises.
C1_NeverRaises == result.kind \in {"pending", "Timestamp", "NaT"}

\* C2: every cell that equals a sentinel keyword or contains one as a substring
\* resolves to NaT, whatever other markers or dates it carries.
C2_SentinelUnresolved ==
  (Returned /\ ~isna(raw) /\ \E k \in SentinelKeywords : Contains(raw, k))
    => result = NaT

\* 'YYYY.MM.DD <marker> hh:mm'
C3Shape ==
  DotDatePattern \o <<{" "}, {"o"}, {"jeon", "hu"}, {" "}, Digit, Digit, {":"}, Digit, Digit>>

C3Case ==
  /\ re_fullmatch(C3Shape, raw)
  /\ ValidDate(RawInt(1, 4), RawInt(6, 7), RawInt(9, 10))
  /\ RawInt(15, 16) \in 1..12
  /\ RawInt(18, 19) \in 0..59

\* C3: for 'YYYY.MM.DD <marker> hh:mm' with hh in 01..12 the result has the same date
\* and minutes, and its hour is 0 (morning, hh = 12), hh (morning), 12 (afternoon,
\* hh = 12) or hh + 12 (afternoon).
C3_TwelveHourClock ==
  (Returned /\ C3Case) =>
    LET hh == RawInt(15, 16)
        H == IF raw[13] = "jeon"
             THEN (IF hh = 12 THEN 0 ELSE hh)
             ELSE (IF hh = 12 THEN 12 ELSE hh + 12)
    IN  /\ result.kind = "Timestamp"
        /\ strftime(result) = DashDate(RawInt(1, 4), RawInt(6, 7), RawInt(9, 10))
        /\ result.sod = H * 3600 + RawInt(18, 19) * 60

\* 12:mm in the afternoon stays at hour 12, and 12:mm in the morning is hour 0
C3_Witness ==
  /\ Returned /\ C3Case
  /\ RawInt(15, 16) = 12
  /\ raw[13] = "hu"
  /\ hour(result) = 12

C4Shape == <<{"i"}, {"jeon"}>> \o DashDatePattern

C4Case ==
  /\ re_fullmatch(C4Shape, raw)
  /\ ValidDate(RawInt(3, 6), RawInt(8, 9), RawInt(11, 12))

\* C4: for every valid date D, the before-marker followed by D as YYYY-MM-DD gives the
\* calendar day before D at midnight, across month and year boundaries and into
\* 29 February in leap years.
C4_BeforeIsPreviousDay ==
  (Returned /\ C4Case) =>
    LET prev == PrevDay(RawInt(3, 6), RawInt(8, 9), RawInt(11, 12))
    IN  /\ result.kind = "Timestamp"
        /\ result.sod = 0
        /\ strftime(result) = DashDate(prev[1], prev[2], prev[3])

\* the first of March of a leap year rolls back to 29 February
C4_Witness ==
  /\ Returned /\ C4Case
  /\ IsLeap(RawInt(3, 6)) /\ RawInt(8, 9) = 3 /\ RawInt(11, 12) = 1
  /\ strftime(result) = DashDate(RawInt(3, 6), 2, 29)

\* the meridiem rule is reached with a marker and a string that does not parse
C8AtRule ==
  /\ pc = "meridiem" /\ result = Pending
  /\ HasMeridiem(date_str)
  /\ to_datetime_format(StripMeridiem(date_str), TwelveHourFormat) = ValueError

\* the rules after the meridiem rule decided a cell that carries a marker
C8Fell ==
  /\ Returned /\ ~isna(raw)
  /\ pc \in {"year", "yearmonth", "battery", "default"}
  /\ HasMeridiem(strip(raw))

\* a date, whitespace, and a 24-hour HH:MM
C8DashClock == DashDatePattern \o <<{" "}, {" "}, Digit, Digit, {":"}, Digit, Digit>>

\* date_str is a valid dash-separated date, whitespace and a 24-hour HH:MM
C8IsDashClock ==
  /\ re_fullmatch(C8DashClock, date_str)
  /\ ValidDate(ToInt(SubSeq(date_str, 1, 4)), ToInt(SubSeq(date_str, 6, 7)),
               ToInt(SubSeq(date_str, 9, 10)))
  /\ ToInt(SubSeq(date_str, 13, 14)) <= 23
  /\ ToInt(SubSeq(date_str, 16, 17)) <= 59

RuleOrder ==
  <<"isna", "sentinel", "before", "event", "meridiem", "year", "yearmonth", "battery",
    "default">>

Rank(p) == CHOOSE j \in 1..Len(RuleOrder) : RuleOrder[j] = p

\* the string the rules after the meridiem rule see
C9Later(s) == IF HasMeridiem(s) THEN StripMeridiem(s) ELSE s

\* rule p matches the cell
C9Matches(p, cell) ==
  LET s == strip(str(cell))
  IN  CASE p = "isna" -> isna(cell)
        [] p = "sentinel" -> s \in SentinelKeywords
        [] p = "before" -> Contains(s, BeforeMarker) /\ re_search(DashDatePattern, s) # 0
        [] p = "event" -> Contains(s, EventMarker) /\ re_search(DotDatePattern, s) # 0
        [] p = "meridiem" ->
             HasMeridiem(s)
               /\ to_datetime_format(StripMeridiem(s), TwelveHourFormat) # ValueError
        [] p = "year" -> re_fullmatch(YearPattern, C9Later(s))
        [] p = "yearmonth" -> re_fullmatch(YearMonthPattern, C9Later(s))
        [] p = "battery" ->
             \E i \in 1..Len(date_formats) :
                to_datetime_format(C9Later(s), date_formats[i]) # ValueError
        [] p = "default" -> TRUE

\* the first rule, in priority order, that matches the cell
C9First(cell) ==
  RuleOrder[SetMin({j \in 1..Len(RuleOrder) :
                      /\ C9Matches(RuleOrder[j], cell)
                      /\ (j > 1 => ~isna(cell))})]

\* the cell has a before-marker, a valid embedded YYYY-MM-DD, and an event or
\* meridiem marker as well
C9BeforeWithOtherMarker ==
  /\ ~isna(raw)
  /\ Contains(raw, BeforeMarker)
  /\ re_search(DashDatePattern, raw) # 0
  /\ (Contains(raw, EventMarker) \/ HasMeridiem(raw))
  /\ to_datetime_iso(group(DashDatePattern, raw)) # ValueError

\* C9: the rules are evaluated in the fixed order missing, sentinel, before-marker,
\* event-marker, meridiem, bare year, bare year-month, format battery; the first
\* rule that matches returns and no later rule is attempted; a cell with a
\* before-marker, an embedded valid YYYY-MM-DD and an event or meridiem marker gives
\* the embedded date minus one day; in the battery the first listed format that
\* matches the whole string gives the result.
C9_FirstRuleWins ==
  /\ [][/\ result = Pending
        /\ (pc' # pc => Rank(pc') = Rank(pc) + 1)
        /\ (result' # Pending /\ pc' # "default" => pc' = pc)]_vars
  /\ [](Returned =>
          /\ pc = C9First(raw)
          /\ (pc = "battery" =>
                /\ fmt = SetMin({i \in 1..Len(date_formats) :
                                   to_datetime_format(date_str, date_formats[i]) # ValueError})
                /\ result = to_datetime_format(date_str, date_formats[fmt]))
          /\ (C9BeforeWithOtherMarker =>
                /\ pc = "before"
                /\ result = MinusDays(to_datetime_iso(group(DashDatePattern, raw)), 1)))

\* a cell with a before-marker, a date, an event-marker and a second date was
\* decided by the before rule
C9_Witness ==
  /\ Returned /\ ~isna(raw)
  /\ pc = "before"
  /\ Contains(raw, EventMarker)
  /\ re_search(DotDatePattern, raw) # 0
  /\ result.kind = "Timestamp"

\* 'YYYY.MM.DD <afternoon> hh:mm' or 'YYYY-MM-DD <afternoon> hh:mm'
C10Shape ==
  <<Digit, Digit, Digit, Digit, {".", "-"}, Digit, Digit, {".", "-"}, Digit, Digit,
    {" "}, {"o"}, {"hu"}, {" "}, Digit, Digit, {":"}, Digit, Digit>>

\* C10: for a valid date (dot or dash), the afternoon marker and hh:mm with hh in
\* 01..11, a returned timestamp that carries that time has hour hh + 12, never hh.
C10_AfternoonKept ==
  (/\ Returned /\ re_fullmatch(C10Shape, raw)
   /\ raw[5] = raw[8]
   /\ ValidDate(RawInt(1, 4), RawInt(6, 7), RawInt(9, 10))
   /\ RawInt(15, 16) \in 1..11
   /\ RawInt(18, 19) \in 0..59
   /\ result.kind = "Timestamp"
   /\ result.sod % 3600 = RawInt(18, 19) * 60
   /\ hour(result) \in {RawInt(15, 16), RawInt(15, 16) + 12})
    => hour(result) = RawInt(15, 16) + 12

-----------------------------------------------------------------------------
(* The dashboard script (app.py:17-36 and 116-197).                        *)
(* sheet is the CSV as read with header=None: rows of cells of one width.  *)
(* A row of df keeps its index label, its cells by column position, and    *)
(* the end and start dates once they are computed.                         *)

NameKeyword == <<"sa", "eop", "myeong">>
SubmitKeyword == <<"je", "chul", "il">>
EndKeyword == <<"jong", "ryo", "il">>
ManagerKeyword == <<"dam", "dang", "ja">>
Unknown == <<"U", "n", "k", "n", "o", "w", "n">>

\* timedelta(days=14) of the derived start date
LookaheadDays == 14

LowerChar(c) ==
  CASE c = "A" -> "a" [] c = "B" -> "b" [] c = "K" -> "k" [] c = "M" -> "m"
    [] c = "P" -> "p" [] c = "U" -> "u" [] c = "D" -> "d" [] OTHER -> c

\* str.lower()
lower(s) == [k \in 1..Len(s) |-> LowerChar(s[k])]

\* find_column(df, keywords): the position of the first column whose label
\* contains a keyword, case-insensitively; 0 for None
find_column(labels, keywords) ==
  LET hits == {c \in 1..Len(labels) :
                 \E kw \in keywords : Contains(lower(str(labels[c])), lower(kw))}
  IN  IF hits = {} THEN 0 ELSE SetMin(hits)

\* the rows of the sheet with a cell that contains the name keyword
HeaderRows(sh) ==
  {r \in 1..Len(sh) : \E c \in 1..Len(sh[r]) : Contains(str(sh[r][c]), NameKeyword)}

\* df.iloc[header_row + 1:].reset_index(drop=True)
RowsAfter(sh, h) ==
  [k \in 1..(Len(sh) - h) |->
     [index |-> k - 1, cells |-> sh[h + k], end |-> Pending, start |-> Pending]]

\* df.dropna(subset=[business_name_col, end_date_col]) on the raw cells
dropna_raw(rows, nameCol, endCol) ==
  SelectSeq(rows, LAMBDA r : ~isna(r.cells[nameCol]) /\ ~isna(r.cells[endCol]))

\* df[end_date_col].apply(parse_date): some cell makes parse_date raise
ApplyRaises(rows, endCol) ==
  \E k \in 1..Len(rows) : parse_date(rows[k].cells[endCol]) = ValueError

apply_parse_date(rows, endCol) ==
  [k \in 1..Len(rows) |-> [rows[k] EXCEPT !.end = parse_date(rows[k].cells[endCol])]]

derive_start_same_day(end) == end

\* df[end_date_col] - timedelta(days=14) of one value; NaT stays NaT
derive_start(end) ==
  IF end.kind = "Timestamp" THEN MinusDays(end, LookaheadDays) ELSE NaT

\* df.dropna(subset=['start', end_date_col]) on the resolved dates
dropna_resolved(rows) ==
  SelectSeq(rows, LAMBDA r : r.start # NaT /\ r.end # NaT)

\* df[manager_col].fillna("Unknown").astype(str)
fillna_manager(rows, managerCol) ==
  [k \in 1..Len(rows) |->
     IF isna(rows[k].cells[managerCol])
     THEN [rows[k] EXCEPT !.cells[managerCol] = Unknown]
     ELSE rows[k]]

RECURSIVE IntStr(_)
\* str(n) of a non-negative integer
IntStr(n) == IF n < 10 THEN <<DigitChar(n)>> ELSE IntStr(n \div 10) \o <<DigitChar(n % 10)>>

\* f"D-{d_day}" if d_day >= 0 else f"D+{-d_day}"
d_day_text(d_day) ==
  IF d_day >= 0 THEN <<"D", "-">> \o IntStr(d_day) ELSE <<"D", "+">> \o IntStr(-d_day)

\* the task dict of one row
TaskOf(r, c) ==
  [Task |-> r.cells[c.name], Start |-> strftime(r.start), Finish |-> strftime(r.end),
   Resource |-> r.cells[c.manager]]

\* the annotation dict of one row; y is index + 0.5, kept as twice its value
AnnotationOf(r, clock) ==
  [x |-> strftime(r.end), y2 |-> 2 * r.index + 1,
   text |-> d_day_text(DeltaDays(r.end, clock))]

-----------------------------------------------------------------------------
(* The sheets and clock readings of the dashboard runs.                    *)

CampLabel == <<"kaem", "peu", "myeong">>
Headers ==
  { <<NameKeyword, SubmitKeyword, ManagerKeyword>>,
    <<ManagerKeyword, NameKeyword \o <<"(", "A", ")">>, EndKeyword>>,
    <<NameKeyword, SubmitKeyword>>,
    <<NameKeyword, ManagerKeyword>>,
    <<CampLabel, SubmitKeyword, ManagerKeyword>>,
    <<NameKeyword, NaN, EndKeyword, ManagerKeyword>> }

NameCells == {NaN, <<"A">>}
ManagerCells == {NaN, <<"K">>}
EndCells ==
  { NaN,
    <<"2", "0", "2", "4", ".", "0", "3", ".", "0", "1">>,
    <<"2", "0", "2", "4", ".", "0", "3", ".", "0", "2">> \o Sp \o AfternoonMarker
      \o Sp \o <<"0", "1", ":", "3", "0">>,
    <<"sa", "jeon", "gyu", "gyeok">>,
    BeforeMarker \o Sp \o <<"2", "0", "2", "4", "-", "1", "3", "-", "0", "1">> }

\* the cells a column of the sheet holds, by its label
CellsUnder(label) ==
  IF isna(label) THEN {NaN}
  ELSE IF Contains(label, NameKeyword) THEN NameCells
  ELSE IF Contains(label, SubmitKeyword) \/ Contains(label, EndKeyword) THEN EndCells
  ELSE IF Contains(label, ManagerKeyword) THEN ManagerCells
  ELSE {NaN}

DataRows(h) ==
  {r \in [1..Len(h) -> NameCells \cup ManagerCells \cup EndCells] :
     \A c \in 1..Len(h) : r[c] \in CellsUnder(h[c])}

\* the tables of at most n data rows under header h
Bodies(h, n) == UNION {[1..k -> DataRows(h)] : k \in 0..n}

\* a title line above the header row
TitleRow(h) == [c \in 1..Len(h) |-> IF c = 1 THEN <<"2", "0", "2", "4">> ELSE NaN]

FullHeader == <<NameKeyword, SubmitKeyword, ManagerKeyword>>

\* tables of up to MaxRows rows under the full header, and of at most one row
\* under the other headers and below a title line
Sheets ==
  {<<FullHeader>> \o b : b \in Bodies(FullHeader, MaxRows)}
    \cup UNION {{<<h>> \o b : b \in Bodies(h, 1)} : h \in Headers}
    \cup {<<TitleRow(FullHeader), FullHeader>> \o b : b \in Bodies(FullHeader, 1)}

\* the readings of datetime.now(): around the end dates, at midnight and at 10:00
Clock0 == toordinal(2024, 3, 1)
ClockReadings == {Timestamp(Clock0 + k, s) : k \in {-1, 0, 1}, s \in {0, 36000}}
                   \ {Timestamp(Clock0 - 1, 0), Timestamp(Clock0 + 1, 0)}

\* the clock when the script starts
EarliestReading == Timestamp(Clock0 - 1, 36000)

Later(a, b) == a.ord > b.ord \/ (a.ord = b.ord /\ a.sod >= b.sod)

-----------------------------------------------------------------------------
(* The script as a state machine: step is the statement about to run.      *)

\* parse_date is not being stepped
ParseIdle ==
  /\ raw = <<>>
  /\ date_str = <<>>
  /\ pc = "idle"
  /\ fmt = 1
  /\ result = NaT

PipelineInit ==
  /\ sheet \in Sheets
  /\ columns = <<>>
  /\ df = <<>>
  /\ cols = NoColumns
  /\ step = "load"
  /\ tasks = <<>>
  /\ annotations = <<>>
  /\ now = EarliestReading
  /\ shown = <<>>
  /\ ParseIdle

\* load_data: the request or the decoding raised; st.error, empty DataFrame
LoadRaises ==
  /\ step = "load"
  /\ shown' = Append(shown, "load_error")
  /\ columns' = <<>>
  /\ df' = <<>>
  /\ step' = "main"
  /\ UNCHANGED <<sheet, cols, tasks, annotations, now>>
  /\ UNCHANGED pvars

\* load_data: the first row with the name keyword becomes the header, the rows
\* below it the data; without such a row st.error and an empty DataFrame
LoadData ==
  /\ step = "load"
  /\ IF HeaderRows(sheet) = {}
     THEN /\ shown' = Append(shown, "header_error")
          /\ columns' = <<>>
          /\ df' = <<>>
     ELSE /\ columns' = sheet[SetMin(HeaderRows(sheet))]
          /\ df' = RowsAfter(sheet, SetMin(HeaderRows(sheet)))
          /\ UNCHANGED shown
  /\ step' = "main"
  /\ UNCHANGED <<sheet, cols, tasks, annotations, now>>
  /\ UNCHANGED pvars

\* df.empty: no rows or no columns
empty(labels, rows) == Len(rows) = 0 \/ Len(labels) = 0

\* else: st.write(the data could not be fetched)
EmptyMessage ==
  /\ step = "main"
  /\ empty(columns, df)
  /\ shown' = Append(shown, "load_failed")
  /\ step' = "done"
  /\ UNCHANGED <<sheet, columns, df, cols, tasks, annotations, now>>
  /\ UNCHANGED pvars

\* the three find_column calls and the test that all three are found
ResolveColumns ==
  /\ step = "main"
  /\ ~empty(columns, df)
  /\ cols' = [name |-> find_column(columns, {NameKeyword}),
              end |-> find_column(columns, {SubmitKeyword, EndKeyword}),
              manager |-> find_column(columns, {ManagerKeyword})]
  /\ IF cols'.name # 0 /\ cols'.end # 0 /\ cols'.manager # 0
     THEN step' = "dropna" /\ UNCHANGED shown
     ELSE step' = "done" /\ shown' = Append(shown, "missing_columns")
  /\ UNCHANGED <<sheet, columns, df, tasks, annotations, now>>
  /\ UNCHANGED pvars

DropnaRaw ==
  /\ step = "dropna"
  /\ df' = dropna_raw(df, cols.name, cols.end)
  /\ step' = "apply"
  /\ UNCHANGED <<sheet, columns, cols, tasks, annotations, now, shown>>
  /\ UNCHANGED pvars

\* an exception inside the try block: st.error twice, nothing is rendered
Except(at) ==
  /\ step = at
  /\ shown' = Append(shown, "exception")
  /\ step' = "done"
  /\ UNCHANGED <<sheet, columns, df, cols, tasks, annotations, now>>
  /\ UNCHANGED pvars

ApplyParseDate ==
  /\ step = "apply"
  /\ ~ApplyRaises(df, cols.end)
  /\ df' = apply_parse_date(df, cols.end)
  /\ step' = "start"
  /\ UNCHANGED <<sheet, columns, cols, tasks, annotations, now, shown>>
  /\ UNCHANGED pvars

ApplyParseDateRaises == step = "apply" /\ ApplyRaises(df, cols.end) /\ Except("apply")

DeriveStart ==
  /\ step = "start"
  /\ df' = [k \in 1..Len(df) |-> [df[k] EXCEPT !.start = derive_start(df[k].end)]]
  /\ step' = "dropna_dates"
  /\ UNCHANGED <<sheet, columns, cols, tasks, annotations, now, shown>>
  /\ UNCHANGED pvars

DropnaResolved ==
  /\ step = "dropna_dates"
  /\ df' = dropna_resolved(df)
  /\ step' = "fillna"
  /\ UNCHANGED <<sheet, columns, cols, tasks, annotations, now, shown>>
  /\ UNCHANGED pvars

FillManager ==
  /\ step = "fillna"
  /\ df' = fillna_manager(df, cols.manager)
  /\ step' = "iterrows"
  /\ UNCHANGED <<sheet, columns, cols, tasks, annotations, now, shown>>
  /\ UNCHANGED pvars

\* one iteration of for index, row in df.iterrows(); datetime.now() is read
IterRow ==
  /\ step = "iterrows"
  /\ Len(tasks) < Len(df)
  /\ \E clock \in ClockReadings :
       /\ Later(clock, now)
       /\ now' = clock
       /\ tasks' = Append(tasks, TaskOf(df[Len(tasks) + 1], cols))
       /\ annotations' = Append(annotations, AnnotationOf(df[Len(tasks) + 1], clock))
  /\ UNCHANGED <<sheet, columns, df, cols, step, shown>>
  /\ UNCHANGED pvars

\* the loop is over: ff.create_gantt(tasks, ...) and st.plotly_chart
RenderChart ==
  /\ step = "iterrows"
  /\ Len(tasks) = Len(df)
  /\ Len(tasks) > 0
  /\ shown' = Append(shown, "chart")
  /\ step' = "done"
  /\ UNCHANGED <<sheet, columns, df, cols, tasks, annotations, now>>
  /\ UNCHANGED pvars

\* ff.create_gantt refuses an empty task list
RenderRaises == Len(df) = 0 /\ Len(tasks) = Len(df) /\ Except("iterrows")

PipelineNext ==
  \/ LoadRaises
  \/ LoadData
  \/ EmptyMessage
  \/ ResolveColumns
  \/ DropnaRaw
  \/ ApplyParseDate
  \/ ApplyParseDateRaises
  \/ DeriveStart
  \/ DropnaResolved
  \/ FillManager
  \/ IterRow
  \/ RenderChart
  \/ RenderRaises

PipelineSpec == PipelineInit /\ [][PipelineNext]_vars

-----------------------------------------------------------------------------
(* Properties of the dashboard script, checked under PipelineSpec.         *)

\* the data rows of the sheet: those below the header row
Loaded ==
  IF HeaderRows(sheet) = {} THEN <<>>
  ELSE [k \in 1..(Len(sheet) - SetMin(HeaderRows(sheet))) |->
          sheet[SetMin(HeaderRows(sheet)) + k]]

\* some column label contains one of the keywords
HasColumn(keywords) ==
  \E c \in 1..Len(columns) : \E kw \in keywords : Contains(str(columns[c]), kw)

\* the day ordinal of a date written 'YYYY-MM-DD'
DateOrd(s) ==
  toordinal(ToInt(SubSeq(s, 1, 4)), ToInt(SubSeq(s, 6, 7)), ToInt(SubSeq(s, 9, 10)))

\* C5: the D-day text of a row is 'D-<n>' when its end date is today or later and
\* 'D+<n>' when it is past, n being the number of days between the current date and
\* the end date; a row whose end date is today is 'D-0' at any time of the day.
C5_DDayText ==
  Len(annotations) > 0 =>
    LET a == annotations[Len(annotations)]
        n == DateOrd(a.x) - now.ord
    IN  a.text = IF n >= 0 THEN <<"D", "-">> \o IntStr(n) ELSE <<"D", "+">> \o IntStr(-n)

\* C6: for a non-empty table the configuration error is shown exactly when the name
\* column or the end-date column is not found; a missing manager is no such error,
\* and a rendered row without a manager has the category 'Unknown'.
C6_ConfigErrorIffNameOrDateMissing ==
  (Len(Loaded) > 0 /\ step = "done" /\ "load_error" \notin {shown[j] : j \in 1..Len(shown)})
    => /\ ("missing_columns" \in {shown[j] : j \in 1..Len(shown)})
            <=> ~(HasColumn({NameKeyword}) /\ HasColumn({SubmitKeyword, EndKeyword}))
       /\ \A j \in 1..Len(tasks) : tasks[j].Resource # NaN

\* parse_date of every end-date cell the sheets hold
C7Resolved == [c \in EndCells |-> parse_date(c)]

\* the rows of loaded, by position, that have a name and an end date, and whose
\* end date resolves
C7Survivors(loaded) ==
  SelectSeq([k \in 1..Len(loaded) |-> k],
            LAMBDA k : /\ ~isna(loaded[k][cols.name])
                       /\ ~isna(loaded[k][cols.end])
                       /\ C7Resolved[loaded[k][cols.end]].kind = "Timestamp")

\* C7: every task comes from a row with a name and a resolved end date, in row
\* order, with its finish the resolved date and its start exactly 14 days earlier;
\* a row whose end date is NaT gives no task and no annotation, and once the chart
\* is rendered every other such row has its task and its annotation.
C7_TasksFromResolvedRows ==
  /\ Len(annotations) = Len(tasks)
  /\ Len(tasks) > 0 =>
       LET loaded == Loaded
           surv == C7Survivors(loaded)
       IN  /\ Len(tasks) <= Len(surv)
           /\ \A j \in 1..Len(tasks) :
                /\ tasks[j].Task = loaded[surv[j]][cols.name]
                /\ tasks[j].Finish = strftime(C7Resolved[loaded[surv[j]][cols.end]])
                /\ DateOrd(tasks[j].Finish) - DateOrd(tasks[j].Start) = 14
                /\ annotations[j].x = tasks[j].Finish
                /\ annotations[j].y2 = 2 * (surv[j] - 1) + 1
           /\ ("chart" \in {shown[j] : j \in 1..Len(shown)}) => Len(tasks) = Len(surv)

\* a rendered chart with the task 2024-02-16 .. 2024-03-01, from a sheet that also
\* has a named row whose end date is NaT
C7_Witness ==
  /\ step = "done"
  /\ "chart" \in {shown[j] : j \in 1..Len(shown)}
  /\ \E j \in 1..Len(tasks) :
       /\ tasks[j].Finish = <<"2", "0", "2", "4", "-", "0", "3", "-", "0", "1">>
       /\ tasks[j].Start = <<"2", "0", "2", "4", "-", "0", "2", "-", "1", "6">>
  /\ \E k \in 1..Len(Loaded) :
       /\ ~isna(Loaded[k][cols.name])
       /\ ~isna(Loaded[k][cols.end])
       /\ C7Resolved[Loaded[k][cols.end]] = NaT

====
